---- MODULE Spec2Model ----
(***************************************************************************)
(* steem-api (src/app.py): the orchestration layer between client requests  *)
(* and the catalog/ledger service (IO API).  The model holds the IO API's   *)
(* resources (games, wallets, purchases), a clock, and one record per       *)
(* request being handled.  Every remote call of a handler is one atomic     *)
(* step; the handler's local computation up to its next remote call (or its *)
(* response) belongs to the step of the call that precedes it.  The wallet  *)
(* workflows (deposit, purchase, return) and the catalog routes (gate,      *)
(* publish, edit, delete, review, list, detail, profits) have their own     *)
(* specifications over the same variables.                                  *)
(***************************************************************************)
EXTENDS Integers, Sequences, FiniteSets, TLC

VARIABLES games, nextGid, wallets, purchases, nextPid, now, req, nreq, nfault, nenv

vars == <<games, nextGid, wallets, purchases, nextPid, now, req, nreq, nfault, nenv>>

(* ------------------------------ bounds --------------------------------- *)
\* requests started in one behaviour
MaxRequests == 2
\* remote calls that fail or answer with malformed data in one behaviour
MaxFaults == 1
\* clock advances and play sessions in one behaviour
MaxEnvSteps == 1

(* ------------------------- program constants --------------------------- *)
GAME_STATUS_PENDING == "pending"
GAME_STATUS_APPROVED == "approved"
GAME_STATUS_REJECTED == "rejected"
RETURN_WINDOW_HOURS == 48
MAX_PLAYTIME_FOR_RETURN_HOURS == 2

\* `publisher_uid is None`, `game_id is None`: the absent uid / id
NoUid == 0

(* ------------------------------ domains -------------------------------- *)
\* concurrent request handlers (Flask serves each request independently)
Procs == {1, 2}
Users == {1, 2}
\* hours the clock may jump by, and hours one play session may add
TickHours == {1, 48, 49}
PlayHours == {2, 3}
\* deposit amounts a client may send in the JSON body
AmountInputs ==
    { [t |-> "int", n |-> k] : k \in {-1, 0, 1} }
    \cup { [t |-> "float", tenths |-> k] : k \in {5, 15} }
    \cup { [t |-> "str", s |-> s] : s \in { <<"0", "1">>, <<"-", "1">>, <<"1", ".", "5">> } }
    \cup { [t |-> "null"], [t |-> "missing"] }

(* ----------------------- Python's int() on JSON ------------------------ *)
DigitVal(c) ==
    CASE c = "0" -> 0 [] c = "1" -> 1 [] c = "2" -> 2 [] c = "3" -> 3
      [] c = "4" -> 4 [] c = "5" -> 5 [] c = "6" -> 6 [] c = "7" -> 7
      [] c = "8" -> 8 [] c = "9" -> 9 [] OTHER -> -1

RECURSIVE DigitsValue(_, _)
\* the value of a digit string, acc the value of the digits already read;
\* -1 when a character is no digit
DigitsValue(s, acc) ==
    IF s = <<>> THEN acc
    ELSE IF DigitVal(Head(s)) < 0 THEN -1
         ELSE DigitsValue(Tail(s), acc * 10 + DigitVal(Head(s)))

\* int(str): an optional sign and at least one digit, else ValueError
PyIntStr(s) ==
    LET neg == s # <<>> /\ Head(s) = "-"
        body == IF s # <<>> /\ Head(s) \in {"-", "+"} THEN Tail(s) ELSE s
        v == IF body = <<>> THEN -1 ELSE DigitsValue(body, 0)
    IN  IF v < 0 THEN [ok |-> FALSE, exc |-> "ValueError", v |-> 0]
        ELSE [ok |-> TRUE, exc |-> "", v |-> IF neg THEN 0 - v ELSE v]

\* int(x) for a JSON value x: an int is itself, a float is truncated toward
\* zero, a string is parsed, null raises TypeError
PyInt(x) ==
    CASE x.t = "int" -> [ok |-> TRUE, exc |-> "", v |-> x.n]
      [] x.t = "float" ->
            [ok |-> TRUE, exc |-> "",
             v |-> IF x.tenths >= 0 THEN x.tenths \div 10
                   ELSE 0 - ((0 - x.tenths) \div 10)]
      [] x.t = "str" -> PyIntStr(x.s)
      [] OTHER -> [ok |-> FALSE, exc |-> "TypeError", v |-> 0]

\* whether a JSON value is an integer (as a JSON number or as integer text)
IsIntegerInput(x) ==
    \/ x.t = "int"
    \/ x.t = "str" /\ PyIntStr(x.s).ok

(* ------------------------ Remote Resource Client ----------------------- *)
\* How one call of _make_io_api_request can end.  "nobody" is a 2xx answer
\* with no content (None is returned), "text" a 2xx answer that is not JSON
\* (the text is returned), "nofield" a JSON object without the field the
\* caller reads, "badfield" one whose field is not a number.  A write that
\* times out may or may not have been applied by the service.
ReadFaults == {"timeout", "http404", "http500", "nobody", "text", "nofield", "badfield"}
WriteFaults == {"timeout_lost", "timeout_applied", "http404", "http500"}

\* the exception _make_io_api_request re-raises, "" when it returns a body
IoExc(kind) ==
    CASE kind \in {"timeout", "timeout_lost", "timeout_applied"} -> "Timeout"
      [] kind = "http404" -> "HTTPError404"
      [] kind = "http500" -> "HTTPError500"
      [] OTHER -> ""

\* whether the service applied a write
Applied(kind) == kind \in {"ok", "timeout_applied"}

\* int(body.get(field)) and int(body.get(field, 0)) on the answer of a GET
\* whose field holds v when the answer is well formed
PyGetInt(kind, v, hasDefault) ==
    CASE IoExc(kind) # "" -> [exc |-> IoExc(kind), v |-> 0]
      [] kind \in {"nobody", "text"} -> [exc |-> "AttributeError", v |-> 0]
      [] kind = "nofield" ->
            IF hasDefault THEN [exc |-> "", v |-> 0]
            ELSE [exc |-> "TypeError", v |-> 0]
      [] kind = "badfield" -> [exc |-> "ValueError", v |-> 0]
      [] OTHER -> [exc |-> "", v |-> v]

\* the outcomes a call may have: any while the fault budget lasts
Outcomes(faults) == IF nfault < MaxFaults THEN {"ok"} \cup faults ELSE {"ok"}
CountFault(kind) == nfault' = IF kind = "ok" THEN nfault ELSE nfault + 1

(* ---------------------- pure steps of the workflows -------------------- *)
\* mutant: the deposit overwrites the balance with the amount
DepositNewBalance_Overwrite(current_balance, amount) == amount
DepositNewBalance(current_balance, amount) == current_balance + amount
\* mutant: the status check is dropped
NotPurchasable_Never(status) == FALSE
NotPurchasable(status) == status # GAME_STATUS_APPROVED
\* mutant: the existing-purchase check is dropped
AlreadyPurchased_Never(existing_purchases) == FALSE
AlreadyPurchased(existing_purchases) == existing_purchases # {}
\* mutant: the funds check is dropped
InsufficientFunds_Never(user_balance, game_price) == FALSE
InsufficientFunds(user_balance, game_price) == user_balance < game_price
\* mutants: the debit adds the price; the debit writes the balance back
PurchaseNewUserBalance_SignSlip(user_balance, game_price) == user_balance + game_price
PurchaseNewUserBalance_NoDebit(user_balance, game_price) == user_balance
PurchaseNewUserBalance(user_balance, game_price) == user_balance - game_price
\* mutant: the publisher is credited twice the price
PublisherCredit_Double(publisher_current_balance, game_price) ==
    publisher_current_balance + 2 * game_price
PublisherCredit(publisher_current_balance, game_price) ==
    publisher_current_balance + game_price
\* mutant: the last hour of the window is refused
ReturnWindowExpired_Inclusive(t, purchase_datetime) ==
    t >= purchase_datetime + RETURN_WINDOW_HOURS
ReturnWindowExpired(t, purchase_datetime) ==
    t > purchase_datetime + RETURN_WINDOW_HOURS
\* mutant: the playtime check is dropped
PlaytimeExceeded_Never(hours_played) == FALSE
PlaytimeExceeded(hours_played) == hours_played > MAX_PLAYTIME_FOR_RETURN_HOURS
\* mutant: the refund writes the balance back unchanged
RefundNewUserBalance_NoCredit(user_current_balance, game_price) ==
    user_current_balance
RefundNewUserBalance(user_current_balance, game_price) ==
    user_current_balance + game_price
\* mutant: the publisher keeps the price of a returned game
PublisherDebit_NoDebit(publisher_current_balance, game_price) ==
    publisher_current_balance
PublisherDebit(publisher_current_balance, game_price) ==
    publisher_current_balance - game_price

\* the purchase timestamp as the service renders it (day and hour of day)
\* and as return_game parses it back (hours since the epoch); created_at
\* of a purchase record is the time of its creation itself and paid the
\* price its buyer was charged (neither is a field the handlers read)
FormatDate(t) == [day |-> t \div 24, hour |-> t % 24]
ParsePurchaseDate(d) == d.day * 24 + d.hour

(* ----------------------- exception handlers ---------------------------- *)
\* A requests.Response is falsy when its status is >= 400, so the handlers'
\* `e.response.status_code if getattr(e, "response", None) else 500` is 500.
\* An exception no except clause names leaves the handler (escaped).
\* mutant: a failure in the purchase workflow is answered as a success
purchase_game_except_Swallow(exc, onGame) == [status |-> 201, escaped |-> FALSE]
purchase_game_except(exc, onGame) ==
    CASE exc = "HTTPError404" /\ onGame -> [status |-> 404, escaped |-> FALSE]
      [] exc \in {"HTTPError404", "HTTPError500", "Timeout",
                  "TypeError", "KeyError", "ValueError"} ->
            [status |-> 500, escaped |-> FALSE]
      [] OTHER -> [status |-> 500, escaped |-> TRUE]

\* mutant: a failure in the return workflow is answered as a success
return_game_except_Swallow(exc, onPurchase) == [status |-> 200, escaped |-> FALSE]
return_game_except(exc, onPurchase) ==
    CASE exc = "HTTPError404" /\ onPurchase -> [status |-> 404, escaped |-> FALSE]
      [] exc \in {"HTTPError404", "HTTPError500", "Timeout",
                  "TypeError", "KeyError", "ValueError"} ->
            [status |-> 500, escaped |-> FALSE]
      [] OTHER -> [status |-> 500, escaped |-> TRUE]

deposit_wallet_except(exc) ==
    CASE exc \in {"HTTPError404", "HTTPError500", "Timeout", "TypeError", "KeyError"} ->
            [status |-> 500, escaped |-> FALSE]
      [] OTHER -> [status |-> 500, escaped |-> TRUE]

\* the except clauses around the publisher counter-entry
PublisherStepSwallows(exc) ==
    exc \in {"HTTPError404", "HTTPError500", "Timeout", "ValueError", "TypeError", "KeyError"}

(* --------------------------- request records --------------------------- *)
IdleReq ==
    [op |-> "none", pc |-> "idle", user_uid |-> NoUid, gid |-> 0, pid |-> 0,
     amount |-> 0, status |-> 0, reason |-> "", escaped |-> FALSE,
     game_status |-> "", game_price |-> 0, publisher_uid |-> NoUid,
     user_balance |-> 0, publisher_balance |-> 0, created |-> 0,
     deleted |-> FALSE, checked |-> FALSE, seen_now |-> 0, seen_date |-> 0,
     seen_hours |-> 0, seen_created |-> 0, at |-> "",
     \* what the request has sent: the wallet balances it PUT (uid, value),
     \* the wallet GETs and the purchase POSTs and DELETEs it issued
     writes |-> <<>>, wreads |-> 0, mut_calls |-> 0,
     \* the request body's amount, and what held when the request arrived
     data |-> [t |-> "missing"], w0 |-> <<>>, had |-> 0,
     \* the gate: the credential sent, how the token validation ended, the
     \* role flags of the claims, whether the wrapped operation was entered
     cred |-> "", auth |-> "", is_admin |-> FALSE, is_publisher |-> FALSE,
     entered |-> FALSE,
     \* catalog routes: the body sent, the payload built, the status an
     \* admin sets, the game and the game list as read, the games answered,
     \* the profit loop's remaining games and running total, the IO API calls
     \* issued, the game writes sent and the status a write replaced
     body |-> [has_name |-> FALSE, has_description |-> FALSE,
               price |-> [t |-> "missing"], forged |-> FALSE],
     payload |-> [has_name |-> FALSE, has_description |-> FALSE, has_price |-> FALSE,
                  price |-> 0, has_status |-> FALSE, status |-> "",
                  has_publisher |-> FALSE, publisher |-> NoUid],
     new_status |-> "",
     seen_game |-> [status |-> "", price |-> 0, publisher |-> NoUid, name |-> "",
                    description |-> ""],
     seen_games |-> <<>>, result |-> {}, todo |-> <<>>, total |-> 0,
     io_calls |-> 0, gwrites |-> <<>>, prev_status |-> "",
     \* the price the buyer was charged for the purchase a return is about
     seen_paid |-> 0,
     \* whether the backend applied the last wallet PUT of the request
     \* (a PUT that timed out may have been applied all the same)
     landed |-> FALSE]

\* the handler returns (or an exception leaves it): one response
Respond(r, status, reason) ==
    [r EXCEPT !.pc = "done", !.at = r.pc, !.status = status, !.reason = reason]
Raise(r, h, exc) ==
    [r EXCEPT !.pc = "done", !.at = r.pc, !.status = h.status, !.escaped = h.escaped,
              !.reason = IF exc = "game missing" THEN exc ELSE "error"]

\* A handler takes a request when it is free.  Under concurrency each of
\* the handlers of Procs serves one request, the first free handler taking
\* it (they are interchangeable); a handler that serves requests one after
\* the other takes the next one once it has responded (reuse).
CanStart(p, reuse) ==
    /\ nreq < MaxRequests
    /\ IF reuse THEN req[p].pc \in {"idle", "done"}
       ELSE /\ req[p].pc = "idle"
            /\ \A q \in Procs : q < p => req[q].pc # "idle"

PurchasesOf(u, g) ==
    {k \in DOMAIN purchases : purchases[k].user_id = u /\ purchases[k].game_id = g}

\* the catalog and the ledger before the first request
InitGames ==
    [g \in {1, 2, 3} |->
       CASE g = 1 -> [status |-> GAME_STATUS_APPROVED, price |-> 2, publisher |-> 2,
                      name |-> "g1", description |-> ""]
         [] g = 2 -> [status |-> GAME_STATUS_APPROVED, price |-> 2, publisher |-> NoUid,
                      name |-> "g2", description |-> ""]
         [] OTHER -> [status |-> GAME_STATUS_PENDING, price |-> 1, publisher |-> 1,
                      name |-> "g3", description |-> ""]]
InitWallets == [u \in Users |-> IF u = 1 THEN 3 ELSE 2]

Init ==
    /\ games = InitGames
    /\ nextGid = 4
    /\ wallets = InitWallets
    /\ purchases = [k \in {1} |-> [user_id |-> 1, game_id |-> 1,
                                    date |-> FormatDate(0), hours_played |-> 0,
                                    created_at |-> 0, paid |-> InitGames[1].price]]
    /\ nextPid = 2
    /\ now = 0
    /\ req = [p \in Procs |-> IdleReq]
    /\ nreq = 0
    /\ nfault = 0
    /\ nenv = 0

\* the same catalog and wallets with no purchase made yet
InitNoPurchases ==
    /\ games = InitGames
    /\ nextGid = 4
    /\ wallets = InitWallets
    /\ purchases = <<>>
    /\ nextPid = 1
    /\ now = 0
    /\ req = [p \in Procs |-> IdleReq]
    /\ nreq = 0
    /\ nfault = 0
    /\ nenv = 0

(* ------------------------------ deposit -------------------------------- *)
\* POST /wallet/deposit: the body is validated before any remote call
deposit_wallet_start(p, reuse) ==
    /\ CanStart(p, reuse)
    /\ \E u \in Users, a \in AmountInputs :
         LET r0 == [IdleReq EXCEPT !.op = "deposit", !.pc = "dep_validate", !.user_uid = u,
                                   !.w0 = wallets, !.data = a]
             parsed == PyInt(a)
         IN  req' = [req EXCEPT ![p] =
                 IF a.t = "missing" THEN Respond(r0, 400, "amount required")
                 ELSE IF ~parsed.ok
                      THEN IF parsed.exc = "ValueError"
                           THEN Respond(r0, 400, "invalid amount")
                           ELSE Raise(r0, [status |-> 500, escaped |-> TRUE], parsed.exc)
                 ELSE IF parsed.v <= 0 THEN Respond(r0, 400, "not positive")
                 ELSE [r0 EXCEPT !.pc = "dep_get", !.amount = parsed.v]]
    /\ nreq' = nreq + 1
    /\ UNCHANGED <<games, nextGid, wallets, purchases, nextPid, now, nfault, nenv>>

\* wallet_data = GET /wallets/{uid}; current_balance = int(balance or 0)
deposit_wallet_get(p) ==
    /\ req[p].pc = "dep_get"
    /\ \E kind \in Outcomes(ReadFaults) :
         LET r == [req[p] EXCEPT !.wreads = @ + 1]
             got == PyGetInt(kind, wallets[r.user_uid], TRUE)
         IN  /\ req' = [req EXCEPT ![p] =
                   IF got.exc # "" THEN Raise(r, deposit_wallet_except(got.exc), got.exc)
                   ELSE [r EXCEPT !.pc = "dep_put", !.user_balance = got.v]]
             /\ CountFault(kind)
    /\ UNCHANGED <<games, nextGid, wallets, purchases, nextPid, now, nreq, nenv>>

\* PUT /wallets/{uid} {balance: current_balance + amount}
deposit_wallet_put(p) ==
    /\ req[p].pc = "dep_put"
    /\ \E kind \in Outcomes(WriteFaults) :
         LET new_balance == DepositNewBalance(req[p].user_balance, req[p].amount)
             r == [req[p] EXCEPT !.writes = Append(@, <<req[p].user_uid, new_balance>>),
                                 !.landed = Applied(kind)]
         IN  /\ wallets' = IF Applied(kind)
                           THEN [wallets EXCEPT ![r.user_uid] = new_balance]
                           ELSE wallets
             /\ req' = [req EXCEPT ![p] =
                   IF IoExc(kind) # ""
                   THEN Raise(r, deposit_wallet_except(IoExc(kind)), IoExc(kind))
                   ELSE Respond(r, 200, "ok")]
             /\ CountFault(kind)
    /\ UNCHANGED <<games, nextGid, purchases, nextPid, now, nreq, nenv>>

(* ------------------------------ purchase ------------------------------- *)
purchase_game_start(p, reuse) ==
    /\ CanStart(p, reuse)
    /\ \E u \in Users, g \in DOMAIN games :
         req' = [req EXCEPT ![p] =
                   [IdleReq EXCEPT !.op = "purchase", !.pc = "pur_game",
                                   !.user_uid = u, !.gid = g,
                                   !.w0 = wallets,
                                   !.had = Cardinality(PurchasesOf(u, g))]]
    /\ nreq' = nreq + 1
    /\ UNCHANGED <<games, nextGid, wallets, purchases, nextPid, now, nfault, nenv>>

\* step 1: game_data = GET /games/{gid}; status check; game_price
purchase_game_get_game(p) ==
    /\ req[p].pc = "pur_game"
    /\ \E kind \in Outcomes(ReadFaults) :
         LET r == req[p]
             g == games[r.gid]
             exc == IF IoExc(kind) # "" THEN IoExc(kind)
                    ELSE IF r.gid \notin DOMAIN games THEN "HTTPError404"
                    ELSE IF kind \in {"nobody", "text"} THEN "AttributeError" ELSE ""
             status == IF kind = "ok" THEN g.status ELSE "None"
         IN  /\ req' = [req EXCEPT ![p] =
                   IF exc # "" THEN Raise(r, purchase_game_except(exc, TRUE), exc)
                   ELSE IF NotPurchasable(status)
                        THEN Respond([r EXCEPT !.game_status = status], 403, "not approved")
                   ELSE [r EXCEPT !.pc = "pur_existing", !.game_status = status,
                                  !.game_price = g.price,
                                  !.publisher_uid = g.publisher]]
             /\ CountFault(kind)
    /\ UNCHANGED <<games, nextGid, wallets, purchases, nextPid, now, nreq, nenv>>

\* step 2: existing_purchases = GET /purchases?user_id=&game_id=; a non-JSON
\* answer is a non-empty text, which is truthy like a non-empty list
purchase_game_get_existing(p) ==
    /\ req[p].pc = "pur_existing"
    /\ \E kind \in Outcomes({"timeout", "http404", "http500", "text"}) :
         LET r == req[p]
             existing_purchases ==
                 IF kind = "text" THEN {"text"} ELSE PurchasesOf(r.user_uid, r.gid)
         IN  /\ req' = [req EXCEPT ![p] =
                   IF IoExc(kind) # ""
                   THEN Raise(r, purchase_game_except(IoExc(kind), FALSE), IoExc(kind))
                   ELSE IF AlreadyPurchased(existing_purchases)
                        THEN Respond(r, 409, "already purchased")
                   ELSE [r EXCEPT !.pc = "pur_wallet"]]
             /\ CountFault(kind)
    /\ UNCHANGED <<games, nextGid, wallets, purchases, nextPid, now, nreq, nenv>>

\* step 3: wallet_data = GET /wallets/{uid}; funds check
purchase_game_get_wallet(p) ==
    /\ req[p].pc = "pur_wallet"
    /\ \E kind \in Outcomes(ReadFaults) :
         LET r == [req[p] EXCEPT !.wreads = @ + 1]
             got == PyGetInt(kind, wallets[r.user_uid], FALSE)
         IN  /\ req' = [req EXCEPT ![p] =
                   IF got.exc # ""
                   THEN Raise(r, purchase_game_except(got.exc, FALSE), got.exc)
                   ELSE IF InsufficientFunds(got.v, r.game_price)
                        THEN Respond([r EXCEPT !.user_balance = got.v], 402, "insufficient funds")
                   ELSE [r EXCEPT !.pc = "pur_create", !.user_balance = got.v]]
             /\ CountFault(kind)
    /\ UNCHANGED <<games, nextGid, wallets, purchases, nextPid, now, nreq, nenv>>

\* step 4: created_purchase = POST /purchases {user_id, game_id}; the
\* service stamps the record with the time and no hours played
purchase_game_create(p) ==
    /\ req[p].pc = "pur_create"
    /\ \E kind \in Outcomes(WriteFaults) :
         LET r == [req[p] EXCEPT !.mut_calls = @ + 1]
             rec == [user_id |-> r.user_uid, game_id |-> r.gid,
                     date |-> FormatDate(now), hours_played |-> 0,
                     created_at |-> now, paid |-> r.game_price]
         IN  /\ IF Applied(kind)
                THEN /\ purchases' = [k \in DOMAIN purchases \cup {nextPid} |->
                                        IF k = nextPid THEN rec ELSE purchases[k]]
                     /\ nextPid' = nextPid + 1
                ELSE UNCHANGED <<purchases, nextPid>>
             /\ req' = [req EXCEPT ![p] =
                   IF IoExc(kind) # ""
                   THEN Raise(r, purchase_game_except(IoExc(kind), FALSE), IoExc(kind))
                   ELSE [r EXCEPT !.pc = "pur_debit", !.created = nextPid]]
             /\ CountFault(kind)
    /\ UNCHANGED <<games, nextGid, wallets, now, nreq, nenv>>

\* step 5: PUT /wallets/{uid} {balance: user_balance - game_price}; then the
\* publisher is looked up in the game data read in step 1
purchase_game_debit(p) ==
    /\ req[p].pc = "pur_debit"
    /\ \E kind \in Outcomes(WriteFaults) :
         LET new_user_balance == PurchaseNewUserBalance(req[p].user_balance, req[p].game_price)
             r == [req[p] EXCEPT !.writes = Append(@, <<req[p].user_uid, new_user_balance>>),
                                 !.landed = Applied(kind)]
         IN  /\ wallets' = IF Applied(kind)
                           THEN [wallets EXCEPT ![r.user_uid] = new_user_balance]
                           ELSE wallets
             /\ req' = [req EXCEPT ![p] =
                   IF IoExc(kind) # ""
                   THEN Raise(r, purchase_game_except(IoExc(kind), FALSE), IoExc(kind))
                   ELSE IF r.publisher_uid = NoUid
                        THEN Respond(r, 201, "no publisher")
                   ELSE [r EXCEPT !.pc = "pur_pub_get"]]
             /\ CountFault(kind)
    /\ UNCHANGED <<games, nextGid, purchases, nextPid, now, nreq, nenv>>

\* step 6, read: publisher_wallet_data = GET /wallets/{publisher_uid},
\* inside the inner try
purchase_game_pub_get(p) ==
    /\ req[p].pc = "pur_pub_get"
    /\ \E kind \in Outcomes(ReadFaults) :
         LET r == [req[p] EXCEPT !.wreads = @ + 1]
             got == PyGetInt(kind, wallets[r.publisher_uid], TRUE)
         IN  /\ req' = [req EXCEPT ![p] =
                   IF got.exc = ""
                   THEN [r EXCEPT !.pc = "pur_pub_put", !.publisher_balance = got.v]
                   ELSE IF PublisherStepSwallows(got.exc)
                        THEN Respond(r, 201, "publisher credit failed")
                   ELSE Raise(r, purchase_game_except(got.exc, FALSE), got.exc)]
             /\ CountFault(kind)
    /\ UNCHANGED <<games, nextGid, wallets, purchases, nextPid, now, nreq, nenv>>

\* step 6, write: PUT /wallets/{publisher_uid} {balance: balance + price}
purchase_game_pub_put(p) ==
    /\ req[p].pc = "pur_pub_put"
    /\ \E kind \in Outcomes(WriteFaults) :
         LET publisher_new_balance == PublisherCredit(req[p].publisher_balance, req[p].game_price)
             r == [req[p] EXCEPT !.writes = Append(@, <<req[p].publisher_uid, publisher_new_balance>>),
                                 !.landed = Applied(kind)]
         IN  /\ wallets' = IF Applied(kind)
                           THEN [wallets EXCEPT ![r.publisher_uid] = publisher_new_balance]
                           ELSE wallets
             /\ req' = [req EXCEPT ![p] =
                   IF IoExc(kind) = "" THEN Respond(r, 201, "ok")
                   ELSE IF PublisherStepSwallows(IoExc(kind))
                        THEN Respond(r, 201, "publisher credit failed")
                   ELSE Raise(r, purchase_game_except(IoExc(kind), FALSE), IoExc(kind))]
             /\ CountFault(kind)
    /\ UNCHANGED <<games, nextGid, purchases, nextPid, now, nreq, nenv>>

(* ------------------------------- return -------------------------------- *)
return_game_start(p, reuse) ==
    /\ CanStart(p, reuse)
    /\ \E u \in Users, k \in 1..(nextPid - 1) :
         req' = [req EXCEPT ![p] =
                   [IdleReq EXCEPT !.op = "return", !.pc = "ret_purchase",
                                   !.user_uid = u, !.pid = k,
                                   !.w0 = wallets,
                                   !.had = IF k \in DOMAIN purchases THEN 1 ELSE 0]]
    /\ nreq' = nreq + 1
    /\ UNCHANGED <<games, nextGid, wallets, purchases, nextPid, now, nfault, nenv>>

\* steps 1-3: purchase_data = GET /purchases/{pid}; owner check; timestamp
\* parse; window check against the clock; playtime check.  "nofield" is an
\* answer without user_id, "badfield" one whose date does not parse.
return_game_get_purchase(p) ==
    /\ req[p].pc = "ret_purchase"
    /\ \E kind \in Outcomes(ReadFaults) :
         LET r == req[p]
             found == r.pid \in DOMAIN purchases
             exc == IF IoExc(kind) # "" THEN IoExc(kind)
                    ELSE IF ~found THEN "HTTPError404"
                    ELSE IF kind \in {"nobody", "text"} THEN "AttributeError" ELSE ""
             pd == purchases[r.pid]
             purchase_datetime == ParsePurchaseDate(pd.date)
             seen == [r EXCEPT !.checked = TRUE, !.seen_now = now,
                               !.seen_date = purchase_datetime,
                               !.seen_hours = pd.hours_played,
                               !.seen_created = pd.created_at, !.gid = pd.game_id,
                               !.seen_paid = pd.paid]
         IN  /\ req' = [req EXCEPT ![p] =
                   IF exc # "" THEN Raise(r, return_game_except(exc, TRUE), exc)
                   ELSE IF kind = "nofield" \/ pd.user_id # r.user_uid
                        THEN Respond(r, 403, "not owner")
                   ELSE IF kind = "badfield" THEN Respond(r, 500, "bad date")
                   ELSE IF ReturnWindowExpired(now, purchase_datetime)
                        THEN Respond(seen, 403, "window expired")
                   ELSE IF PlaytimeExceeded(pd.hours_played)
                        THEN Respond(seen, 403, "playtime exceeded")
                   ELSE [seen EXCEPT !.pc = "ret_game"]]
             /\ CountFault(kind)
    /\ UNCHANGED <<games, nextGid, wallets, purchases, nextPid, now, nreq, nenv>>

\* step 4: game_data = GET /games/{game_id}; game_price; publisher_uid
return_game_get_game(p) ==
    /\ req[p].pc = "ret_game"
    /\ \E kind \in Outcomes(ReadFaults) :
         LET r == req[p]
             found == r.gid \in DOMAIN games
             got == IF kind = "ok" /\ ~found THEN [exc |-> "HTTPError404", v |-> 0]
                    ELSE PyGetInt(kind, games[r.gid].price, FALSE)
         IN  /\ req' = [req EXCEPT ![p] =
                   IF got.exc # ""
                   THEN Raise(r, return_game_except(got.exc, FALSE),
                              IF got.exc = "HTTPError404" THEN "game missing" ELSE got.exc)
                   ELSE [r EXCEPT !.pc = "ret_delete", !.game_price = got.v,
                                  !.publisher_uid = games[r.gid].publisher]]
             /\ CountFault(kind)
    /\ UNCHANGED <<games, nextGid, wallets, purchases, nextPid, now, nreq, nenv>>

\* what DELETE /purchases/{pid} leaves of the purchase records
\* mutant: the record survives its deletion
DeletePurchase_Keep(ps, pid) == ps
DeletePurchase(ps, pid) == [k \in DOMAIN ps \ {pid} |-> ps[k]]

\* what DELETE /purchases/{pid} raises in the handler: the fault of the
\* call, or the 404 the service answers when the record is already gone
\* mutant: deleting a record that is gone succeeds
DeleteAnswer_Idempotent(kind, found) == IoExc(kind)
DeleteAnswer(kind, found) ==
    IF IoExc(kind) # "" THEN IoExc(kind)
    ELSE IF ~found THEN "HTTPError404" ELSE ""

\* step 5: DELETE /purchases/{pid}
return_game_delete(p) ==
    /\ req[p].pc = "ret_delete"
    /\ \E kind \in Outcomes(WriteFaults) :
         LET r == [req[p] EXCEPT !.mut_calls = @ + 1]
             found == r.pid \in DOMAIN purchases
             exc == DeleteAnswer(kind, found)
         IN  /\ purchases' = IF Applied(kind) /\ found
                             THEN DeletePurchase(purchases, r.pid)
                             ELSE purchases
             /\ req' = [req EXCEPT ![p] =
                   IF exc # "" THEN Raise(r, return_game_except(exc, TRUE), exc)
                   ELSE [r EXCEPT !.pc = "ret_wallet", !.deleted = TRUE]]
             /\ CountFault(kind)
    /\ UNCHANGED <<games, nextGid, wallets, nextPid, now, nreq, nenv>>

\* step 6, read: user_wallet_data = GET /wallets/{uid}
return_game_get_wallet(p) ==
    /\ req[p].pc = "ret_wallet"
    /\ \E kind \in Outcomes(ReadFaults) :
         LET r == [req[p] EXCEPT !.wreads = @ + 1]
             got == PyGetInt(kind, wallets[r.user_uid], FALSE)
         IN  /\ req' = [req EXCEPT ![p] =
                   IF got.exc # ""
                   THEN Raise(r, return_game_except(got.exc, FALSE), got.exc)
                   ELSE [r EXCEPT !.pc = "ret_credit", !.user_balance = got.v]]
             /\ CountFault(kind)
    /\ UNCHANGED <<games, nextGid, wallets, purchases, nextPid, now, nreq, nenv>>

\* step 6, write: PUT /wallets/{uid} {balance: balance + game_price}
return_game_credit(p) ==
    /\ req[p].pc = "ret_credit"
    /\ \E kind \in Outcomes(WriteFaults) :
         LET user_new_balance == RefundNewUserBalance(req[p].user_balance, req[p].game_price)
             r == [req[p] EXCEPT !.writes = Append(@, <<req[p].user_uid, user_new_balance>>),
                                 !.landed = Applied(kind)]
         IN  /\ wallets' = IF Applied(kind)
                           THEN [wallets EXCEPT ![r.user_uid] = user_new_balance]
                           ELSE wallets
             /\ req' = [req EXCEPT ![p] =
                   IF IoExc(kind) # ""
                   THEN Raise(r, return_game_except(IoExc(kind), FALSE), IoExc(kind))
                   ELSE IF r.publisher_uid = NoUid
                        THEN Respond(r, 200, "no publisher")
                   ELSE [r EXCEPT !.pc = "ret_pub_get"]]
             /\ CountFault(kind)
    /\ UNCHANGED <<games, nextGid, purchases, nextPid, now, nreq, nenv>>

\* step 7, read: publisher_wallet_data = GET /wallets/{publisher_uid}
return_game_pub_get(p) ==
    /\ req[p].pc = "ret_pub_get"
    /\ \E kind \in Outcomes(ReadFaults) :
         LET r == [req[p] EXCEPT !.wreads = @ + 1]
             got == PyGetInt(kind, wallets[r.publisher_uid], TRUE)
         IN  /\ req' = [req EXCEPT ![p] =
                   IF got.exc = ""
                   THEN [r EXCEPT !.pc = "ret_pub_put", !.publisher_balance = got.v]
                   ELSE IF PublisherStepSwallows(got.exc)
                        THEN Respond(r, 200, "publisher debit failed")
                   ELSE Raise(r, return_game_except(got.exc, FALSE), got.exc)]
             /\ CountFault(kind)
    /\ UNCHANGED <<games, nextGid, wallets, purchases, nextPid, now, nreq, nenv>>

\* step 7, write: PUT /wallets/{publisher_uid} {balance: balance - price}
return_game_pub_put(p) ==
    /\ req[p].pc = "ret_pub_put"
    /\ \E kind \in Outcomes(WriteFaults) :
         LET publisher_new_balance == PublisherDebit(req[p].publisher_balance, req[p].game_price)
             r == [req[p] EXCEPT !.writes = Append(@, <<req[p].publisher_uid, publisher_new_balance>>),
                                 !.landed = Applied(kind)]
         IN  /\ wallets' = IF Applied(kind)
                           THEN [wallets EXCEPT ![r.publisher_uid] = publisher_new_balance]
                           ELSE wallets
             /\ req' = [req EXCEPT ![p] =
                   IF IoExc(kind) = "" THEN Respond(r, 200, "ok")
                   ELSE IF PublisherStepSwallows(IoExc(kind))
                        THEN Respond(r, 200, "publisher debit failed")
                   ELSE Raise(r, return_game_except(IoExc(kind), FALSE), IoExc(kind))]
             /\ CountFault(kind)
    /\ UNCHANGED <<games, nextGid, purchases, nextPid, now, nreq, nenv>>

(* ----------------------------- environment ----------------------------- *)
\* the clock advances
Tick ==
    /\ nenv < MaxEnvSteps
    /\ \E d \in TickHours : now' = now + d
    /\ nenv' = nenv + 1
    /\ UNCHANGED <<games, nextGid, wallets, purchases, nextPid, req, nreq, nfault>>

\* the owner plays a purchased game; the service adds to hours_played
Play ==
    /\ nenv < MaxEnvSteps
    /\ \E k \in DOMAIN purchases, d \in PlayHours :
         purchases' = [purchases EXCEPT ![k].hours_played = @ + d]
    /\ nenv' = nenv + 1
    /\ UNCHANGED <<games, nextGid, wallets, nextPid, now, req, nreq, nfault>>

(* --------------------------- specifications ---------------------------- *)
Step(p, reuse) ==
    \/ deposit_wallet_start(p, reuse)
    \/ deposit_wallet_get(p)
    \/ deposit_wallet_put(p)
    \/ purchase_game_start(p, reuse)
    \/ purchase_game_get_game(p)
    \/ purchase_game_get_existing(p)
    \/ purchase_game_get_wallet(p)
    \/ purchase_game_create(p)
    \/ purchase_game_debit(p)
    \/ purchase_game_pub_get(p)
    \/ purchase_game_pub_put(p)
    \/ return_game_start(p, reuse)
    \/ return_game_get_purchase(p)
    \/ return_game_get_game(p)
    \/ return_game_delete(p)
    \/ return_game_get_wallet(p)
    \/ return_game_credit(p)
    \/ return_game_pub_get(p)
    \/ return_game_pub_put(p)

\* requests are handled concurrently, their remote calls interleaved
Next == (\E p \in Procs : Step(p, FALSE)) \/ Tick \/ Play
Spec == Init /\ [][Next]_vars

\* requests are handled one at a time
NextSeq == Step(1, TRUE) \/ Tick \/ Play
SpecSeq == Init /\ [][NextSeq]_vars
\* requests handled one at a time, starting before any purchase
SpecSeqFresh == InitNoPurchases /\ [][NextSeq]_vars

(* ======================= catalog and admin routes ====================== *)
(* ---------------------------- request bodies --------------------------- *)
\* JSON bodies a publisher may send to POST /games and PUT /games/{gid}:
\* which of name, description and price they carry (price as a JSON value,
\* "missing" when absent) and whether they also carry fields the client has
\* no say over (forged: "status": "approved" and a foreign "publisher")
Body(hn, hd, pr, forged) ==
    [has_name |-> hn, has_description |-> hd, price |-> pr, forged |-> forged]
EmptyBody == Body(FALSE, FALSE, [t |-> "missing"], FALSE)
Bodies ==
    { EmptyBody,
      Body(TRUE, FALSE, [t |-> "missing"], FALSE),
      Body(FALSE, TRUE, [t |-> "missing"], TRUE),
      Body(FALSE, FALSE, [t |-> "int", n |-> 3], FALSE),
      Body(TRUE, FALSE, [t |-> "int", n |-> 1], TRUE),
      Body(TRUE, FALSE, [t |-> "int", n |-> -1], FALSE),
      Body(TRUE, FALSE, [t |-> "str", s |-> <<"1", ".", "5">>], FALSE),
      Body(TRUE, FALSE, [t |-> "null"], FALSE),
      Body(FALSE, FALSE, [t |-> "missing"], TRUE) }
\* the values a body's name and description hold when present
NewName == "renamed"
NewDescription == "described"
\* game ids a client may name: the games that ever existed and one more
GameIds == 1..nextGid

(* ------------------------------ the gate ------------------------------- *)
\* how the call to the Auth API's /validate can end
AuthOutcomes == {"ok", "status401", "timeout", "transport"}
NoClaims == [ok |-> FALSE, uid |-> NoUid, is_admin |-> FALSE, is_publisher |-> FALSE]
\* the uid of the administrator's account
AdminUid == 3
\* the claims the Auth API may answer for a valid token: a customer with or
\* without the publisher flag, or the administrator
ClaimsSet ==
    { [ok |-> TRUE, uid |-> u, is_admin |-> FALSE, is_publisher |-> b] :
        u \in Users, b \in BOOLEAN }
    \cup { [ok |-> TRUE, uid |-> AdminUid, is_admin |-> TRUE, is_publisher |-> FALSE] }

\* _validate_auth_token: the claims on status 200, None otherwise
ValidateAuthToken(outcome, claims) == IF outcome = "ok" THEN claims ELSE NoClaims

\* what each protected route declares
AdminRequired(op) == op \in {"approve", "reject"}
PublisherRequired(op) == op \in {"publish", "update", "delete", "profits"}

\* mutant: the gate does not look at the publisher flag
GateStatus_NoPublisherCheck(cred, claims, admin_required, publisher_required) ==
    IF cred = "none" THEN 401
    ELSE IF ~claims.ok THEN 401
    ELSE IF admin_required /\ ~claims.is_admin THEN 403
    ELSE 0
\* require_auth: the status the gate answers, 0 when it lets the request in
GateStatus(cred, claims, admin_required, publisher_required) ==
    IF cred = "none" THEN 401
    ELSE IF ~claims.ok THEN 401
    ELSE IF admin_required /\ ~claims.is_admin THEN 403
    ELSE IF publisher_required /\ ~claims.is_publisher THEN 403
    ELSE 0

\* the first step of each route's wrapped operation
FirstStep(op) ==
    CASE op = "publish" -> "pub_post"
      [] op = "update" -> "upd_get"
      [] op = "delete" -> "del_get"
      [] op = "profits" -> "prof_games"
      [] op = "approve" -> "adm_get"
      [] op = "reject" -> "adm_get"
      [] OTHER -> "wal_get"

(* ------------------------ pure steps, catalog -------------------------- *)
\* what a game write carries: the fields present and their values
NoPayload ==
    [has_name |-> FALSE, has_description |-> FALSE, has_price |-> FALSE, price |-> 0,
     has_status |-> FALSE, status |-> "", has_publisher |-> FALSE, publisher |-> NoUid]

\* publish_new_game's validation: the status it answers, 0 when valid
PublishValidation(data) ==
    IF data = EmptyBody \/ ~data.has_name \/ data.price.t \in {"missing", "null"} THEN 400
    ELSE IF ~PyInt(data.price).ok THEN 400
    ELSE IF PyInt(data.price).v < 0 THEN 400
    ELSE 0

\* mutant: the stored status is the one the client sends
PublishPayload_TrustsClient(data, publisher_uid) ==
    [has_name |-> TRUE, has_description |-> TRUE, has_price |-> TRUE,
     price |-> PyInt(data.price).v,
     has_status |-> TRUE,
     status |-> IF data.forged THEN GAME_STATUS_APPROVED ELSE GAME_STATUS_PENDING,
     has_publisher |-> TRUE, publisher |-> publisher_uid]
\* game_payload of publish_new_game
PublishPayload(data, publisher_uid) ==
    [has_name |-> TRUE, has_description |-> TRUE, has_price |-> TRUE,
     price |-> PyInt(data.price).v,
     has_status |-> TRUE, status |-> GAME_STATUS_PENDING,
     has_publisher |-> TRUE, publisher |-> publisher_uid]

\* mutant: an edit of a reviewed game flips its verdict
EditStatus_Flip(current_status) ==
    CASE current_status = GAME_STATUS_APPROVED -> GAME_STATUS_REJECTED
      [] current_status = GAME_STATUS_REJECTED -> GAME_STATUS_APPROVED
      [] OTHER -> GAME_STATUS_PENDING
\* mutant: an edit keeps the status the game has
EditStatus_Keep(current_status) == current_status
\* the status update_published_game puts in update_payload, "" for none
EditStatus(current_status) ==
    IF current_status \in {GAME_STATUS_APPROVED, GAME_STATUS_REJECTED}
    THEN GAME_STATUS_PENDING
    ELSE IF current_status = GAME_STATUS_PENDING THEN GAME_STATUS_PENDING
    ELSE ""

\* update_payload of update_published_game and the status it answers
\* instead (0 when the payload is valid); exc names the exception int()
\* raised on a price that is no number and no text
UpdatePayload(data, current_status) ==
    LET has_price == data.price.t # "missing"
        parsed == IF has_price THEN PyInt(data.price) ELSE [ok |-> TRUE, exc |-> "", v |-> 0]
        st == EditStatus(current_status)
        payload == [has_name |-> data.has_name, has_description |-> data.has_description,
                    has_price |-> has_price, price |-> parsed.v,
                    has_status |-> st # "", status |-> st,
                    has_publisher |-> FALSE, publisher |-> NoUid]
    IN  IF ~parsed.ok
        THEN [status |-> IF parsed.exc = "ValueError" THEN 400 ELSE 500,
              exc |-> parsed.exc, payload |-> NoPayload]
        ELSE IF has_price /\ parsed.v < 0
        THEN [status |-> 400, exc |-> "", payload |-> NoPayload]
        ELSE IF ~(data.has_name \/ data.has_description \/ has_price)
        THEN [status |-> 400, exc |-> "", payload |-> NoPayload]
        ELSE [status |-> 0, exc |-> "", payload |-> payload]

\* mutant: anyone may edit or delete a game
NotOwner_Never(game_publisher, publisher_uid) == FALSE
\* game_data.get("publisher") != publisher_uid
NotOwner(game_publisher, publisher_uid) == game_publisher # publisher_uid

\* the service's PUT /games/{gid}: the fields sent replace the stored ones
ApplyUpdate(game, payload) ==
    [game EXCEPT !.name = IF payload.has_name THEN NewName ELSE @,
                 !.description = IF payload.has_description THEN NewDescription ELSE @,
                 !.price = IF payload.has_price THEN payload.price ELSE @,
                 !.status = IF payload.has_status THEN payload.status ELSE @]

\* mutant: the list shows every game that is not rejected
ApprovedGames_NotRejected(all_games) ==
    {g \in DOMAIN all_games : all_games[g].status # GAME_STATUS_REJECTED}
\* list_games: the games of the answer whose status is approved
ApprovedGames(all_games) ==
    {g \in DOMAIN all_games : all_games[g].status = GAME_STATUS_APPROVED}

\* mutant: the detail route hides only rejected games
NotAccessible_OnlyRejected(status) == status = GAME_STATUS_REJECTED
\* get_game_detail: game.get("status") != GAME_STATUS_APPROVED
NotAccessible(status) == status # GAME_STATUS_APPROVED

\* mutant: profits count every game of the publisher
PublisherGamesApproved_AnyStatus(all_io_games, publisher_uid) ==
    {g \in DOMAIN all_io_games : all_io_games[g].publisher = publisher_uid}
\* get_my_profits: the caller's approved games in the answer
PublisherGamesApproved(all_io_games, publisher_uid) ==
    {g \in DOMAIN all_io_games :
        /\ all_io_games[g].publisher = publisher_uid
        /\ all_io_games[g].status = GAME_STATUS_APPROVED}

RECURSIVE SortedSeq(_)
\* the ids of a set in the order the service lists them (ascending)
SortedSeq(S) ==
    IF S = {} THEN <<>>
    ELSE LET m == CHOOSE x \in S : \A y \in S : x <= y
         IN  <<m>> \o SortedSeq(S \ {m})

\* GET /purchases?game_id=: the records of one game
PurchasesForGame(game_id) == {k \in DOMAIN purchases : purchases[k].game_id = game_id}

\* total_profit += len(purchases_for_game) * game_price
AddProfit(total_profit, n_purchases, game_price) == total_profit + n_purchases * game_price

(* ---------------------- exception handlers, catalog -------------------- *)
\* publish_new_game: a requests.Response of status >= 400 is falsy, so the
\* duplicate-name branch is never taken and the status answered is 500
publish_new_game_except(exc) ==
    CASE exc \in {"HTTPError404", "HTTPError500", "Timeout",
                  "ValueError", "TypeError", "KeyError"} -> [status |-> 500, escaped |-> FALSE]
      [] OTHER -> [status |-> 500, escaped |-> TRUE]

\* update_published_game, delete_published_game, _admin_change_game_status
game_write_except(exc) ==
    CASE exc = "HTTPError404" -> [status |-> 404, escaped |-> FALSE]
      [] exc \in {"HTTPError500", "Timeout",
                  "ValueError", "TypeError", "KeyError"} -> [status |-> 500, escaped |-> FALSE]
      [] OTHER -> [status |-> 500, escaped |-> TRUE]

\* list_games: only RequestException is named
list_games_except(exc) ==
    CASE exc \in {"HTTPError404", "HTTPError500", "Timeout"} -> [status |-> 500, escaped |-> FALSE]
      [] OTHER -> [status |-> 500, escaped |-> TRUE]

\* get_game_detail: the upstream status is passed on
get_game_detail_except(exc) ==
    CASE exc = "HTTPError404" -> [status |-> 404, escaped |-> FALSE]
      [] exc \in {"HTTPError500", "Timeout"} -> [status |-> 500, escaped |-> FALSE]
      [] OTHER -> [status |-> 500, escaped |-> TRUE]

get_my_profits_except(exc) ==
    CASE exc \in {"HTTPError404", "HTTPError500", "Timeout",
                  "ValueError", "TypeError", "KeyError"} -> [status |-> 500, escaped |-> FALSE]
      [] OTHER -> [status |-> 500, escaped |-> TRUE]

get_wallet_balance_except(exc) ==
    CASE exc = "HTTPError404" -> [status |-> 404, escaped |-> FALSE]
      [] exc \in {"HTTPError500", "Timeout",
                  "TypeError", "KeyError"} -> [status |-> 500, escaped |-> FALSE]
      [] OTHER -> [status |-> 500, escaped |-> TRUE]

(* --------------------------- catalog requests -------------------------- *)
\* the faults of a read whose answer the handler looks into
CatalogReadFaults == {"timeout", "http404", "http500", "nobody", "text"}
NoGame == [status |-> "", price |-> 0, publisher |-> NoUid, name |-> "", description |-> ""]

\* a request arrives at a route
Arrive(p, r0) ==
    /\ req' = [req EXCEPT ![p] = r0]
    /\ nreq' = nreq + 1
    /\ UNCHANGED <<games, nextGid, wallets, purchases, nextPid, now, nfault, nenv>>

\* the exception a GET /games/{gid} ends with, "" when it answers a body;
\* looked tells whether the handler calls .get on the answer
GameReadExc(kind, gid, looked) ==
    IF IoExc(kind) # "" THEN IoExc(kind)
    ELSE IF gid \notin DOMAIN games THEN "HTTPError404"
    ELSE IF looked /\ kind \in {"nobody", "text"} THEN "AttributeError"
    ELSE ""

\* the exception a PUT or DELETE /games/{gid} ends with
GameWriteExc(kind, gid) ==
    IF IoExc(kind) # "" THEN IoExc(kind)
    ELSE IF gid \notin DOMAIN games THEN "HTTPError404"
    ELSE ""

\* one game write as the request sent it
GameWrite(method, gid, payload) == [method |-> method, gid |-> gid, payload |-> payload]

\* what a request brings to the gate and what the Auth API makes of it:
\* no cookie (no call), a token the validation fails on, a token with claims
AuthAnswers ==
    { [cred |-> "none", outcome |-> "", answered |-> NoClaims] }
    \cup { [cred |-> "token", outcome |-> o, answered |-> NoClaims] :
              o \in AuthOutcomes \ {"ok"} }
    \cup { [cred |-> "token", outcome |-> "ok", answered |-> c] : c \in ClaimsSet }

\* whether the gate lets the request in
Admitted(op, a) ==
    GateStatus(a.cred, ValidateAuthToken(a.outcome, a.answered),
               AdminRequired(op), PublisherRequired(op)) = 0

\* decorated_function of require_auth: cookie, token validation, role
\* flags.  The request record after the gate: answered by the gate itself,
\* or r0 (the route's arguments and body) entering the wrapped operation.
require_auth(op, a, r0) ==
    LET claims == IF a.cred = "none" THEN NoClaims
                  ELSE ValidateAuthToken(a.outcome, a.answered)
        st == GateStatus(a.cred, claims, AdminRequired(op), PublisherRequired(op))
    IN  IF st # 0
        THEN Respond([IdleReq EXCEPT !.op = op, !.pc = "auth", !.cred = a.cred,
                                     !.auth = a.outcome, !.user_uid = claims.uid,
                                     !.is_admin = claims.is_admin,
                                     !.is_publisher = claims.is_publisher], st, "gate")
        ELSE [r0 EXCEPT !.op = op, !.pc = FirstStep(op), !.entered = TRUE,
                        !.cred = a.cred, !.auth = a.outcome,
                        !.user_uid = claims.uid, !.is_admin = claims.is_admin,
                        !.is_publisher = claims.is_publisher]

(* ------------------------------- publish ------------------------------- *)
publish_new_game_start(p, reuse) ==
    /\ CanStart(p, reuse)
    /\ \E a \in AuthAnswers :
          IF Admitted("publish", a)
          THEN \E data \in Bodies :
                 Arrive(p, require_auth("publish", a, [IdleReq EXCEPT !.body = data]))
          ELSE Arrive(p, require_auth("publish", a, IdleReq))

\* validation of the body, then POST /games with game_payload
publish_new_game_post(p) ==
    /\ req[p].pc = "pub_post"
    /\ LET r == req[p]
           invalid == PublishValidation(r.body)
       IN  IF invalid # 0
           THEN /\ req' = [req EXCEPT ![p] = Respond(r, invalid, "invalid body")]
                /\ UNCHANGED <<games, nextGid, nfault>>
           ELSE \E kind \in Outcomes(WriteFaults) :
                  LET game_payload == PublishPayload(r.body, r.user_uid)
                      r1 == [r EXCEPT !.io_calls = @ + 1, !.gid = nextGid,
                                      !.payload = game_payload,
                                      !.gwrites = Append(@, GameWrite("post", nextGid, game_payload))]
                      created_game ==
                          [status |-> game_payload.status, price |-> game_payload.price,
                           publisher |-> game_payload.publisher, name |-> NewName,
                           description |-> IF r.body.has_description
                                           THEN NewDescription ELSE ""]
                  IN  /\ games' = IF Applied(kind)
                                  THEN games @@ (nextGid :> created_game)
                                  ELSE games
                      /\ nextGid' = IF Applied(kind) THEN nextGid + 1 ELSE nextGid
                      /\ req' = [req EXCEPT ![p] =
                            IF IoExc(kind) # ""
                            THEN Raise(r1, publish_new_game_except(IoExc(kind)), IoExc(kind))
                            ELSE Respond(r1, 201, "ok")]
                      /\ CountFault(kind)
    /\ UNCHANGED <<wallets, purchases, nextPid, now, nreq, nenv>>

(* -------------------------------- edit --------------------------------- *)
update_published_game_start(p, reuse) ==
    /\ CanStart(p, reuse)
    /\ \E a \in AuthAnswers :
          IF Admitted("update", a)
          THEN \E gid \in GameIds, data \in Bodies :
                 Arrive(p, require_auth("update", a,
                                               [IdleReq EXCEPT !.gid = gid, !.body = data]))
          ELSE Arrive(p, require_auth("update", a, IdleReq))

\* empty-body check; game_data = GET /games/{gid}; ownership check;
\* update_payload with the validated fields and the status reset
update_published_game_get(p) ==
    /\ req[p].pc = "upd_get"
    /\ LET r == req[p] IN
       IF r.body = EmptyBody
       THEN /\ req' = [req EXCEPT ![p] = Respond(r, 400, "empty body")]
            /\ UNCHANGED nfault
       ELSE \E kind \in Outcomes(CatalogReadFaults) :
              LET r1 == [r EXCEPT !.io_calls = @ + 1]
                  exc == GameReadExc(kind, r.gid, TRUE)
                  game_data == games[r.gid]
                  r2 == [r1 EXCEPT !.seen_game = game_data]
                  up == UpdatePayload(r.body, game_data.status)
              IN  /\ req' = [req EXCEPT ![p] =
                        IF exc # "" THEN Raise(r1, game_write_except(exc), exc)
                        ELSE IF NotOwner(game_data.publisher, r.user_uid)
                        THEN Respond(r2, 403, "not owner")
                        ELSE IF up.exc # "" /\ up.exc # "ValueError"
                        THEN Raise(r2, game_write_except(up.exc), up.exc)
                        ELSE IF up.status # 0 THEN Respond(r2, up.status, "invalid body")
                        ELSE [r2 EXCEPT !.pc = "upd_put", !.payload = up.payload]]
                  /\ CountFault(kind)
    /\ UNCHANGED <<games, nextGid, wallets, purchases, nextPid, now, nreq, nenv>>

\* updated_game = PUT /games/{gid} update_payload
update_published_game_put(p) ==
    /\ req[p].pc = "upd_put"
    /\ \E kind \in Outcomes(WriteFaults) :
         LET r == req[p]
             found == r.gid \in DOMAIN games
             exc == GameWriteExc(kind, r.gid)
             r1 == [r EXCEPT !.io_calls = @ + 1,
                             !.prev_status = IF found THEN games[r.gid].status ELSE "",
                             !.gwrites = Append(@, GameWrite("put", r.gid, r.payload))]
         IN  /\ games' = IF Applied(kind) /\ found
                         THEN [games EXCEPT ![r.gid] = ApplyUpdate(@, r.payload)]
                         ELSE games
             /\ req' = [req EXCEPT ![p] =
                   IF exc # "" THEN Raise(r1, game_write_except(exc), exc)
                   ELSE Respond(r1, 200, "ok")]
             /\ CountFault(kind)
    /\ UNCHANGED <<nextGid, wallets, purchases, nextPid, now, nreq, nenv>>

(* ------------------------------- delete -------------------------------- *)
delete_published_game_start(p, reuse) ==
    /\ CanStart(p, reuse)
    /\ \E a \in AuthAnswers :
          IF Admitted("delete", a)
          THEN \E gid \in GameIds :
                 Arrive(p, require_auth("delete", a, [IdleReq EXCEPT !.gid = gid]))
          ELSE Arrive(p, require_auth("delete", a, IdleReq))

\* game_data = GET /games/{gid}; ownership check
delete_published_game_get(p) ==
    /\ req[p].pc = "del_get"
    /\ \E kind \in Outcomes(CatalogReadFaults) :
         LET r == [req[p] EXCEPT !.io_calls = @ + 1]
             exc == GameReadExc(kind, r.gid, TRUE)
             game_data == games[r.gid]
             r2 == [r EXCEPT !.seen_game = game_data]
         IN  /\ req' = [req EXCEPT ![p] =
                   IF exc # "" THEN Raise(r, game_write_except(exc), exc)
                   ELSE IF NotOwner(game_data.publisher, r.user_uid)
                   THEN Respond(r2, 403, "not owner")
                   ELSE [r2 EXCEPT !.pc = "del_delete"]]
             /\ CountFault(kind)
    /\ UNCHANGED <<games, nextGid, wallets, purchases, nextPid, now, nreq, nenv>>

\* DELETE /games/{gid}
delete_published_game_delete(p) ==
    /\ req[p].pc = "del_delete"
    /\ \E kind \in Outcomes(WriteFaults) :
         LET r == req[p]
             found == r.gid \in DOMAIN games
             exc == GameWriteExc(kind, r.gid)
             r1 == [r EXCEPT !.io_calls = @ + 1,
                             !.gwrites = Append(@, GameWrite("delete", r.gid, NoPayload))]
         IN  /\ games' = IF Applied(kind) /\ found
                         THEN [g \in DOMAIN games \ {r.gid} |-> games[g]]
                         ELSE games
             /\ req' = [req EXCEPT ![p] =
                   IF exc # "" THEN Raise(r1, game_write_except(exc), exc)
                   ELSE Respond(r1, 200, "ok")]
             /\ CountFault(kind)
    /\ UNCHANGED <<nextGid, wallets, purchases, nextPid, now, nreq, nenv>>

(* -------------------------------- admin -------------------------------- *)
\* the status admin_approve_game and admin_reject_game pass on
\* mutant: a reject request approves
AdminNewStatus_AlwaysApproved(op) == GAME_STATUS_APPROVED
AdminNewStatus(op) ==
    IF op = "approve" THEN GAME_STATUS_APPROVED ELSE GAME_STATUS_REJECTED

admin_approve_game_start(p, reuse) ==
    /\ CanStart(p, reuse)
    /\ \E a \in AuthAnswers :
          IF Admitted("approve", a)
          THEN \E gid \in GameIds :
                 Arrive(p, require_auth("approve", a,
                            [IdleReq EXCEPT !.gid = gid, !.new_status = AdminNewStatus("approve")]))
          ELSE Arrive(p, require_auth("approve", a, IdleReq))

admin_reject_game_start(p, reuse) ==
    /\ CanStart(p, reuse)
    /\ \E a \in AuthAnswers :
          IF Admitted("reject", a)
          THEN \E gid \in GameIds :
                 Arrive(p, require_auth("reject", a,
                            [IdleReq EXCEPT !.gid = gid, !.new_status = AdminNewStatus("reject")]))
          ELSE Arrive(p, require_auth("reject", a, IdleReq))

\* _admin_change_game_status: GET /games/{gid}, the answer is not looked at
admin_change_game_status_get(p) ==
    /\ req[p].pc = "adm_get"
    /\ \E kind \in Outcomes(CatalogReadFaults) :
         LET r == [req[p] EXCEPT !.io_calls = @ + 1]
             exc == GameReadExc(kind, r.gid, FALSE)
         IN  /\ req' = [req EXCEPT ![p] =
                   IF exc # "" THEN Raise(r, game_write_except(exc), exc)
                   ELSE [r EXCEPT !.pc = "adm_put",
                                  !.seen_game = IF kind = "ok" THEN games[r.gid] ELSE NoGame]]
             /\ CountFault(kind)
    /\ UNCHANGED <<games, nextGid, wallets, purchases, nextPid, now, nreq, nenv>>

\* _admin_change_game_status: PUT /games/{gid} {status: new_status}
admin_change_game_status_put(p) ==
    /\ req[p].pc = "adm_put"
    /\ \E kind \in Outcomes(WriteFaults) :
         LET r == req[p]
             found == r.gid \in DOMAIN games
             exc == GameWriteExc(kind, r.gid)
             payload == [NoPayload EXCEPT !.has_status = TRUE, !.status = r.new_status]
             r1 == [r EXCEPT !.io_calls = @ + 1, !.payload = payload,
                             !.prev_status = IF found THEN games[r.gid].status ELSE "",
                             !.gwrites = Append(@, GameWrite("put", r.gid, payload))]
         IN  /\ games' = IF Applied(kind) /\ found
                         THEN [games EXCEPT ![r.gid] = ApplyUpdate(@, payload)]
                         ELSE games
             /\ req' = [req EXCEPT ![p] =
                   IF exc # "" THEN Raise(r1, game_write_except(exc), exc)
                   ELSE Respond(r1, 200, "ok")]
             /\ CountFault(kind)
    /\ UNCHANGED <<nextGid, wallets, purchases, nextPid, now, nreq, nenv>>

(* --------------------------- public catalog ---------------------------- *)
list_games_start(p, reuse) ==
    /\ CanStart(p, reuse)
    /\ Arrive(p, [IdleReq EXCEPT !.op = "list", !.pc = "list_get"])

\* all_games = GET /games; the approved ones are answered.  Iterating the
\* None of an empty answer raises TypeError, .get on the characters of a
\* text answer AttributeError.
list_games_get(p) ==
    /\ req[p].pc = "list_get"
    /\ \E kind \in Outcomes(CatalogReadFaults) :
         LET r == [req[p] EXCEPT !.io_calls = @ + 1]
             exc == IF IoExc(kind) # "" THEN IoExc(kind)
                    ELSE IF kind = "nobody" THEN "TypeError"
                    ELSE IF kind = "text" THEN "AttributeError" ELSE ""
         IN  /\ req' = [req EXCEPT ![p] =
                   IF exc # "" THEN Raise(r, list_games_except(exc), exc)
                   ELSE Respond([r EXCEPT !.seen_games = games,
                                          !.result = ApprovedGames(games)], 200, "ok")]
             /\ CountFault(kind)
    /\ UNCHANGED <<games, nextGid, wallets, purchases, nextPid, now, nreq, nenv>>

get_game_detail_start(p, reuse) ==
    /\ CanStart(p, reuse)
    /\ \E gid \in GameIds :
          Arrive(p, [IdleReq EXCEPT !.op = "detail", !.pc = "detail_get", !.gid = gid])

\* game = GET /games/{gid}; 403 unless its status is approved
get_game_detail_get(p) ==
    /\ req[p].pc = "detail_get"
    /\ \E kind \in Outcomes(CatalogReadFaults) :
         LET r == [req[p] EXCEPT !.io_calls = @ + 1, !.had = IF req[p].gid \in DOMAIN games THEN 1 ELSE 0]
             exc == GameReadExc(kind, r.gid, TRUE)
             game == games[r.gid]
             r2 == [r EXCEPT !.seen_game = game]
         IN  /\ req' = [req EXCEPT ![p] =
                   IF exc # "" THEN Raise(r, get_game_detail_except(exc), exc)
                   ELSE IF NotAccessible(game.status) THEN Respond(r2, 403, "not accessible")
                   ELSE Respond([r2 EXCEPT !.result = {r.gid}], 200, "ok")]
             /\ CountFault(kind)
    /\ UNCHANGED <<games, nextGid, wallets, purchases, nextPid, now, nreq, nenv>>

(* ------------------------------- profits ------------------------------- *)
get_my_profits_start(p, reuse) ==
    /\ CanStart(p, reuse)
    /\ \E a \in AuthAnswers : Arrive(p, require_auth("profits", a, IdleReq))

\* all_io_games = GET /games; publisher_games_approved
get_my_profits_games(p) ==
    /\ req[p].pc = "prof_games"
    /\ \E kind \in Outcomes(CatalogReadFaults) :
         LET r == [req[p] EXCEPT !.io_calls = @ + 1]
             exc == IF IoExc(kind) # "" THEN IoExc(kind)
                    ELSE IF kind = "nobody" THEN "TypeError"
                    ELSE IF kind = "text" THEN "AttributeError" ELSE ""
             publisher_games_approved == SortedSeq(PublisherGamesApproved(games, r.user_uid))
             r2 == [r EXCEPT !.seen_games = games, !.todo = publisher_games_approved]
         IN  /\ req' = [req EXCEPT ![p] =
                   IF exc # "" THEN Raise(r, get_my_profits_except(exc), exc)
                   ELSE IF publisher_games_approved = <<>> THEN Respond(r2, 200, "ok")
                   ELSE [r2 EXCEPT !.pc = "prof_purchases"]]
             /\ CountFault(kind)
    /\ UNCHANGED <<games, nextGid, wallets, purchases, nextPid, now, nreq, nenv>>

\* one turn of the loop: purchases_for_game = GET /purchases?game_id=;
\* total_profit += len(purchases_for_game) * game_price.  len() of the None
\* of an empty answer raises TypeError.
get_my_profits_purchases(p) ==
    /\ req[p].pc = "prof_purchases"
    /\ \E kind \in Outcomes({"timeout", "http404", "http500", "nobody"}) :
         LET r == [req[p] EXCEPT !.io_calls = @ + 1]
             game_id == Head(r.todo)
             game_price == r.seen_games[game_id].price
             exc == IF IoExc(kind) # "" THEN IoExc(kind)
                    ELSE IF kind = "nobody" THEN "TypeError" ELSE ""
             r2 == [r EXCEPT !.todo = Tail(@),
                             !.total = AddProfit(@, Cardinality(PurchasesForGame(game_id)),
                                                 game_price)]
         IN  /\ req' = [req EXCEPT ![p] =
                   IF exc # "" THEN Raise(r, get_my_profits_except(exc), exc)
                   ELSE IF r2.todo = <<>> THEN Respond(r2, 200, "ok")
                   ELSE r2]
             /\ CountFault(kind)
    /\ UNCHANGED <<games, nextGid, wallets, purchases, nextPid, now, nreq, nenv>>

(* ---------------------------- wallet balance --------------------------- *)
get_wallet_balance_start(p, reuse) ==
    /\ CanStart(p, reuse)
    /\ \E a \in AuthAnswers : Arrive(p, require_auth("wallet", a, IdleReq))

\* wallet_data = GET /wallets/{uid}, answered as it is
get_wallet_balance_get(p) ==
    /\ req[p].pc = "wal_get"
    /\ \E kind \in Outcomes(CatalogReadFaults) :
         LET r == [req[p] EXCEPT !.io_calls = @ + 1, !.wreads = @ + 1]
             exc == IF IoExc(kind) # "" THEN IoExc(kind)
                    ELSE IF r.user_uid \notin DOMAIN wallets THEN "HTTPError404" ELSE ""
         IN  /\ req' = [req EXCEPT ![p] =
                   IF exc # "" THEN Raise(r, get_wallet_balance_except(exc), exc)
                   ELSE Respond([r EXCEPT !.user_balance = wallets[r.user_uid]], 200, "ok")]
             /\ CountFault(kind)
    /\ UNCHANGED <<games, nextGid, wallets, purchases, nextPid, now, nreq, nenv>>

(* ----------------------- catalog specifications ------------------------ *)
\* a catalog with reviewed and unreviewed games of two publishers, each
\* with purchase records
InitCatalogGames ==
    [g \in {1, 2, 3} |->
       CASE g = 1 -> [status |-> GAME_STATUS_APPROVED, price |-> 2, publisher |-> 2,
                      name |-> "g1", description |-> ""]
         [] g = 2 -> [status |-> GAME_STATUS_REJECTED, price |-> 3, publisher |-> 2,
                      name |-> "g2", description |-> ""]
         [] OTHER -> [status |-> GAME_STATUS_PENDING, price |-> 1, publisher |-> 1,
                      name |-> "g3", description |-> ""]]

InitCatalog ==
    /\ games = InitCatalogGames
    /\ nextGid = 4
    /\ wallets = InitWallets
    /\ purchases = [k \in {1, 2, 3, 4} |->
                      [user_id |-> IF k \in {1, 3} THEN 1 ELSE 2,
                       game_id |-> CASE k \in {1, 2} -> 1 [] k = 3 -> 2 [] OTHER -> 3,
                       date |-> FormatDate(0), hours_played |-> 0, created_at |-> 0,
                       paid |-> InitCatalogGames[
                                   CASE k \in {1, 2} -> 1 [] k = 3 -> 2 [] OTHER -> 3].price]]
    /\ nextPid = 5
    /\ now = 0
    /\ req = [p \in Procs |-> IdleReq]
    /\ nreq = 0
    /\ nfault = 0
    /\ nenv = 0

StepCatalog(p, reuse) ==
    \/ publish_new_game_start(p, reuse)
    \/ publish_new_game_post(p)
    \/ update_published_game_start(p, reuse)
    \/ update_published_game_get(p)
    \/ update_published_game_put(p)
    \/ delete_published_game_start(p, reuse)
    \/ delete_published_game_get(p)
    \/ delete_published_game_delete(p)
    \/ admin_approve_game_start(p, reuse)
    \/ admin_reject_game_start(p, reuse)
    \/ admin_change_game_status_get(p)
    \/ admin_change_game_status_put(p)
    \/ list_games_start(p, reuse)
    \/ list_games_get(p)
    \/ get_game_detail_start(p, reuse)
    \/ get_game_detail_get(p)
    \/ get_my_profits_start(p, reuse)
    \/ get_my_profits_games(p)
    \/ get_my_profits_purchases(p)
    \/ get_wallet_balance_start(p, reuse)
    \/ get_wallet_balance_get(p)

\* catalog requests handled concurrently
NextCatalog == \E p \in Procs : StepCatalog(p, FALSE)
SpecCatalog == InitCatalog /\ [][NextCatalog]_vars

\* catalog requests handled one at a time
NextCatalogSeq == StepCatalog(1, TRUE)
SpecCatalogSeq == InitCatalog /\ [][NextCatalogSeq]_vars

(* ------------------- purchases against a moving catalog ---------------- *)
\* the purchase and return workflows together with the routes that change
\* a game under them: the publisher's edit and the admin's verdict
StepMarket(p, reuse) ==
    \/ purchase_game_start(p, reuse)
    \/ purchase_game_get_game(p)
    \/ purchase_game_get_existing(p)
    \/ purchase_game_get_wallet(p)
    \/ purchase_game_create(p)
    \/ purchase_game_debit(p)
    \/ purchase_game_pub_get(p)
    \/ purchase_game_pub_put(p)
    \/ return_game_start(p, reuse)
    \/ return_game_get_purchase(p)
    \/ return_game_get_game(p)
    \/ return_game_delete(p)
    \/ return_game_get_wallet(p)
    \/ return_game_credit(p)
    \/ return_game_pub_get(p)
    \/ return_game_pub_put(p)
    \/ update_published_game_start(p, reuse)
    \/ update_published_game_get(p)
    \/ update_published_game_put(p)
    \/ admin_approve_game_start(p, reuse)
    \/ admin_reject_game_start(p, reuse)
    \/ admin_change_game_status_get(p)
    \/ admin_change_game_status_put(p)

\* handled concurrently
NextMarket == \E p \in Procs : StepMarket(p, FALSE)
SpecMarket == Init /\ [][NextMarket]_vars

\* handled one at a time
NextMarketSeq == StepMarket(1, TRUE)
SpecMarketSeq == Init /\ [][NextMarketSeq]_vars

(* ================================ claims =============================== *)
PurchaseOk(r) == r.op = "purchase" /\ r.pc = "done" /\ r.status = 201
ReturnOk(r) == r.op = "return" /\ r.pc = "done" /\ r.status = 200
Rejected(r, step, status, reason) ==
    r.pc = "done" /\ r.at = step /\ r.status = status /\ r.reason = reason

\* C1: starting from balances >= 0, every balance value a request of this
\* layer PUTs to a wallet (buyer or publisher; deposit, purchase, return,
\* the publisher counter-entries included) is >= 0, under every
\* interleaving.  Stated for the runs in which no remote call has failed or
\* answered malformed data, where the claim has the least to cover.
C1_WrittenBalancesNonNegative ==
    nfault = 0 =>
      \A p \in Procs : \A i \in DOMAIN req[p].writes : req[p].writes[i][2] >= 0

C3_ConcurrentPurchasesRace ==
    \A p, q \in Procs :
      LET r == req[p]
          t == req[q]
      IN  (p # q /\ PurchaseOk(r) /\ PurchaseOk(t) /\ r.user_uid = t.user_uid) =>
            /\ (r.user_balance = t.user_balance
                /\ r.user_uid \notin {r.publisher_uid, t.publisher_uid}) =>
                 wallets[r.user_uid] \in {r.user_balance - r.game_price,
                                          t.user_balance - t.game_price}
            /\ r.gid = t.gid => Cardinality(PurchasesOf(r.user_uid, r.gid)) >= 2

\* both requests passed both checks: two records for the pair, and a balance
\* that covered one price only carries one debit
C3_Witness ==
    \E p, q \in Procs :
      LET r == req[p]
          t == req[q]
      IN  /\ p # q /\ PurchaseOk(r) /\ PurchaseOk(t)
          /\ r.user_uid = t.user_uid /\ r.gid = t.gid
          /\ Cardinality(PurchasesOf(r.user_uid, r.gid)) = 2
          /\ r.user_balance = t.user_balance
          /\ r.user_balance < r.game_price + t.game_price
          /\ wallets[r.user_uid] = r.user_balance - r.game_price

C5_RejectedPurchaseWritesNothing ==
    \A p \in Procs :
      LET r == req[p] IN
      r.op = "purchase" =>
        /\ (r.pc = "done" /\ r.at \in {"pur_game", "pur_existing", "pur_wallet"}) =>
             (r.writes = <<>> /\ r.mut_calls = 0 /\ r.created = 0)
        /\ (r.pc = "done" /\ r.at = "pur_create") => r.writes = <<>>
        /\ r.game_status \notin {"", GAME_STATUS_APPROVED} =>
             (r.pc = "done" /\ r.at = "pur_game" /\ r.status = 403 /\ r.writes = <<>>)
        /\ (r.pc \in {"pur_create", "pur_debit", "pur_pub_get", "pur_pub_put"}
            \/ r.at \in {"pur_create", "pur_debit", "pur_pub_get", "pur_pub_put"}) =>
             r.user_balance >= r.game_price

\* a purchase of a pending game was refused before any write
C5_Witness ==
    \E p \in Procs :
      /\ Rejected(req[p], "pur_game", 403, "not approved")
      /\ req[p].op = "purchase"
      /\ req[p].game_status = GAME_STATUS_PENDING
      /\ games[req[p].gid].status = GAME_STATUS_PENDING
      /\ req[p].writes = <<>> /\ req[p].mut_calls = 0

\* C6: a return by the purchase's owner whose timestamp parses is rejected
\* (403) as window-expired exactly when now > purchase time + 48 hours,
\* otherwise rejected (403) as playtime-exceeded exactly when
\* hours_played > 2; now = purchase time + 48 and hours_played = 2 pass, so
\* a return succeeds only with now <= purchase time + 48 and
\* hours_played <= 2.
C6_ReturnEligibility ==
    \A p \in Procs :
      LET r == req[p]
          expired == r.seen_now > r.seen_created + 48
          over == r.seen_hours > 2
      IN  (r.op = "return" /\ r.checked) =>
            /\ Rejected(r, "ret_purchase", 403, "window expired") <=> expired
            /\ Rejected(r, "ret_purchase", 403, "playtime exceeded") <=> (~expired /\ over)
            /\ r.status = 200 => (~expired /\ ~over)

\* a return at exactly purchase time + 48 hours went through
C6_Witness ==
    \E p \in Procs :
      /\ ReturnOk(req[p])
      /\ req[p].seen_now = req[p].seen_created + 48

\* C7: when a return answers 200, the purchase record with that id is gone
\* and the balance written to the buyer's wallet is the balance the request
\* read plus the game's price.
C7_ReturnSuccess ==
    \A p \in Procs :
      LET r == req[p] IN
      ReturnOk(r) =>
        /\ r.pid \notin DOMAIN purchases
        /\ r.deleted
        /\ r.game_price = games[r.gid].price
        /\ r.writes[1] = <<r.user_uid, r.user_balance + r.game_price>>

C7_Witness ==
    \E p \in Procs :
      /\ ReturnOk(req[p])
      /\ req[p].game_price > 0
      /\ req[p].had = 1
      /\ req[p].pid \notin DOMAIN purchases
      /\ wallets[req[p].user_uid] = req[p].user_balance + req[p].game_price

\* C8: a return rejected before the deletion step (purchase not found: 404;
\* not the owner: 403; unparseable timestamp: 500; window expired: 403;
\* playtime exceeded: 403; game missing: 500) has issued no write and, with
\* no other request interleaved, leaves the purchase record and both wallets
\* as they were; a return outside the window or with excess playtime is
\* rejected that way.
C8_RejectedReturnWritesNothing ==
    \A p \in Procs :
      LET r == req[p] IN
      r.op = "return" =>
        /\ (r.pc = "done" /\ r.at \in {"ret_purchase", "ret_game"}) =>
             /\ r.writes = <<>> /\ r.mut_calls = 0 /\ ~r.deleted
             /\ wallets = r.w0
             /\ r.had = 1 => r.pid \in DOMAIN purchases
        /\ (r.checked /\ (r.seen_now > r.seen_created + 48 \/ r.seen_hours > 2)) =>
             (r.pc = "done" /\ r.at = "ret_purchase" /\ r.status = 403)

\* a return 49 hours after the purchase was refused and changed nothing
C8_Witness ==
    \E p \in Procs :
      /\ req[p].op = "return"
      /\ Rejected(req[p], "ret_purchase", 403, "window expired")
      /\ req[p].pid \in DOMAIN purchases
      /\ wallets = req[p].w0

\* C9: a deposit whose amount parses as a strictly positive integer and
\* whose remote calls succeed writes the balance read plus the amount and
\* answers 200; a deposit whose amount is <= 0 or not an integer answers 400
\* and issues no wallet read or write.
C9_DepositContract ==
    \A p \in Procs :
      LET r == req[p]
          valid == IsIntegerInput(r.data) /\ PyInt(r.data).v > 0
      IN  r.op = "deposit" =>
            /\ (valid /\ r.pc = "done" /\ r.status = 200) =>
                 r.writes = << <<r.user_uid, r.user_balance + PyInt(r.data).v>> >>
            /\ ~valid =>
                 (r.pc = "done" /\ r.status = 400 /\ r.wreads = 0 /\ r.writes = <<>>)

\* C10: once the buyer's debit has been written, the purchase answers 201
\* whatever happens in the publisher credit step (timeout, HTTP error,
\* malformed or missing publisher wallet data).
C10_PublisherCreditNeverChangesResponse ==
    \A p \in Procs :
      LET r == req[p] IN
      (r.op = "purchase" /\ r.pc = "done" /\ r.at \in {"pur_pub_get", "pur_pub_put"}) =>
        (r.status = 201 /\ ~r.escaped /\ r.created # 0)

\* C11: once the buyer's refund has been written, the return answers 200
\* whatever happens in the publisher debit step (timeout, HTTP error,
\* malformed or missing publisher wallet data), and the deletion stands.
C11_PublisherDebitNeverChangesResponse ==
    \A p \in Procs :
      LET r == req[p] IN
      (r.op = "return" /\ r.pc = "done" /\ r.at \in {"ret_pub_get", "ret_pub_put"}) =>
        (r.status = 200 /\ ~r.escaped /\ r.deleted)

\* C18: with requests handled one at a time and every remote call
\* succeeding, a purchase followed by the return of that purchase leaves
\* every wallet balance and the set of purchase records as they were before
\* the purchase.
C18_PurchaseThenReturnRestores ==
    LET r == req[1] IN
    (nfault = 0 /\ nreq = 2 /\ ReturnOk(r) /\ r.pid = 1) =>
      /\ wallets = InitWallets
      /\ purchases = <<>>

\* user 1 bought game 1 of publisher 2 and returned it: both wallets moved
\* by the price and back
C18_Witness ==
    LET r == req[1] IN
    /\ nfault = 0 /\ nreq = 2 /\ ReturnOk(r) /\ r.pid = 1
    /\ r.user_uid = 1 /\ r.publisher_uid = 2 /\ r.game_price = 2
    /\ Len(r.writes) = 2
    /\ r.w0 = [InitWallets EXCEPT ![1] = @ - 2, ![2] = @ + 2]
    /\ wallets = InitWallets

\* C19: no failure or malformed answer of a remote call leaves a handler
\* uncaught: a request that ends in an uncaught exception can only be one
\* whose own body failed validation, before any remote call.
C19_NoRemoteFailureEscapes ==
    \A p \in Procs : req[p].escaped => req[p].at = "dep_validate"

\* a step that moves game g straight from one verdict to the other
DirectVerdictChange(g) ==
    /\ g \in DOMAIN games /\ g \in DOMAIN games'
    /\ \/ games[g].status = GAME_STATUS_APPROVED /\ games'[g].status = GAME_STATUS_REJECTED
       \/ games[g].status = GAME_STATUS_REJECTED /\ games'[g].status = GAME_STATUS_APPROVED

\* the step in which handler p's admin request writes new_status to game g
AdminWriteStep(p, g) ==
    /\ req[p].op \in {"approve", "reject"} /\ req[p].pc = "adm_put" /\ req[p].gid = g
    /\ req'[p].pc = "done"
    /\ games'[g].status = req[p].new_status

\* C12 (as stated): no step of this layer moves a game's status directly
\* from approved to rejected or from rejected to approved.
C12_NoDirectVerdictChange_Original ==
    [][\A g \in 1..nextGid : ~DirectVerdictChange(g)]_vars

\* C12 (amended): the publisher's operations never move a game directly
\* between approved and rejected; the only step that does is the status
\* write of an admin approve or reject request, which sets its target
\* status whatever the current one.
C12_DirectVerdictChangeOnlyByAdmin ==
    [][\A g \in 1..nextGid :
         DirectVerdictChange(g) => \E p \in Procs : AdminWriteStep(p, g)]_vars

\* an admin reject answered 200 on a game that was approved when the write
\* arrived: approved -> rejected with no pending state between
C12_Witness ==
    \E p \in Procs :
      /\ req[p].op = "reject" /\ req[p].pc = "done" /\ req[p].status = 200
      /\ req[p].prev_status = GAME_STATUS_APPROVED
      /\ req[p].gid \in DOMAIN games
      /\ games[req[p].gid].status = GAME_STATUS_REJECTED

\* C13: the write of every successful edit (and every edit write the
\* service applied) leaves the game pending, whether it was approved,
\* rejected or pending before.
C13_EditLeavesPending ==
    [][\A p \in Procs :
         (/\ req[p].op = "update" /\ req[p].pc = "upd_put" /\ req'[p].pc = "done"
          /\ (req'[p].status = 200 \/ games' # games))
         => /\ req[p].gid \in DOMAIN games'
            /\ games'[req[p].gid].status = GAME_STATUS_PENDING]_vars

\* the owner's edit of an approved game answered 200 and the game is pending
C13_Witness ==
    \E p \in Procs :
      /\ req[p].op = "update" /\ req[p].pc = "done" /\ req[p].status = 200
      /\ req[p].prev_status = GAME_STATUS_APPROVED
      /\ req[p].seen_game.publisher = req[p].user_uid
      /\ req[p].gid \in DOMAIN games
      /\ games[req[p].gid].status = GAME_STATUS_PENDING

\* C14: a game's status becomes approved or rejected (by a change of an
\* existing game or by its creation) only in the status write of an admin
\* approve or reject request; a publish request stores status pending and
\* the caller as publisher whatever the body carries, and the only status
\* an edit sends is pending.
C14_VerdictOnlyByAdmin ==
    /\ [][\A g \in 1..nextGid :
            (/\ g \in DOMAIN games'
             /\ games'[g].status \in {GAME_STATUS_APPROVED, GAME_STATUS_REJECTED}
             /\ (g \notin DOMAIN games \/ games[g].status # games'[g].status))
            => \E p \in Procs : AdminWriteStep(p, g)]_vars
    /\ [](\A p \in Procs :
            LET r == req[p] IN
            /\ (r.op = "publish" /\ r.gwrites # <<>>) =>
                 /\ r.gwrites[1].payload.status = GAME_STATUS_PENDING
                 /\ r.gwrites[1].payload.publisher = r.user_uid
                 /\ (r.status = 201 /\ r.gid \in DOMAIN games) =>
                      games[r.gid].publisher = r.user_uid
            /\ (r.op = "update" /\ r.gwrites # <<>>) =>
                 (r.gwrites[1].payload.has_status =>
                    r.gwrites[1].payload.status = GAME_STATUS_PENDING))

\* a publish request whose body carried "status": "approved" and a foreign
\* publisher was answered 201 and the game is stored pending under the caller
C14_Witness ==
    \E p \in Procs :
      /\ req[p].op = "publish" /\ req[p].pc = "done" /\ req[p].status = 201
      /\ req[p].body.forged
      /\ req[p].gid \in DOMAIN games
      /\ games[req[p].gid].status = GAME_STATUS_PENDING
      /\ games[req[p].gid].publisher = req[p].user_uid

\* an edit or delete request, let in by the gate, for an existing game
\* whose recorded publisher is not the caller, with every remote call
\* succeeding (requests handled one at a time)
ForeignGameRequest(r) ==
    /\ r.op \in {"update", "delete"} /\ r.entered /\ r.pc = "done"
    /\ nfault = 0
    /\ r.gid \in DOMAIN games
    /\ games[r.gid].publisher # r.user_uid

\* C15 (as stated): an edit or delete request by a publisher who is not the
\* game's recorded publisher answers 403 and sends no write.
C15_NonOwnerForbidden_Original ==
    LET r == req[1] IN
    ForeignGameRequest(r) => (r.status = 403 /\ r.gwrites = <<>>)

\* C15 (amended): an edit or delete request by a publisher who is not the
\* game's recorded publisher sends no write and leaves the game as it was
\* read; it answers 403, except that an edit with an empty body answers 400
\* before the game is read and its ownership checked.
C15_NonOwnerWritesNothing ==
    LET r == req[1] IN
    ForeignGameRequest(r) =>
      /\ r.gwrites = <<>>
      /\ IF r.op = "update" /\ r.body = EmptyBody
         THEN r.status = 400 /\ r.io_calls = 0
         ELSE r.status = 403 /\ r.io_calls = 1 /\ r.seen_game = games[r.gid]

\* user 1, a publisher, asked to delete game 1 of publisher 2: 403, the
\* game is still there
C15_Witness ==
    LET r == req[1] IN
    /\ ForeignGameRequest(r)
    /\ r.op = "delete" /\ r.user_uid = 1 /\ r.gid = 1 /\ r.is_publisher
    /\ r.status = 403
    /\ games[1] = InitCatalogGames[1]

RECURSIVE SumProfit(_)
\* price times number of purchase records, summed over the games of S
SumProfit(S) ==
    IF S = {} THEN 0
    ELSE LET g == CHOOSE x \in S : TRUE
         IN  games[g].price * Cardinality({k \in DOMAIN purchases : purchases[k].game_id = g})
               + SumProfit(S \ {g})

Protected(op) == op \in {"publish", "update", "delete", "profits", "approve", "reject", "wallet"}
\* the gate answered the request itself: nothing of the wrapped operation ran
TurnedAway(r, status) ==
    /\ r.pc = "done" /\ r.at = "auth" /\ r.status = status
    /\ ~r.entered /\ r.io_calls = 0 /\ r.gwrites = <<>> /\ r.writes = <<>>

\* C17: on every protected route the wrapped operation is entered only
\* with a credential, a token validation that answered 200 and the role
\* flag the route requires; a missing credential is answered 401, a failed
\* validation 401, a missing role flag 403, and none of them enters the
\* wrapped operation or issues a call to the IO API.
C17_GateBeforeOperation ==
    \A p \in Procs :
      LET r == req[p] IN
      (Protected(r.op) /\ r.pc # "idle") =>
        /\ r.cred = "none" => TurnedAway(r, 401)
        /\ (r.cred = "token" /\ r.auth # "ok") => TurnedAway(r, 401)
        /\ (r.cred = "token" /\ r.auth = "ok" /\ AdminRequired(r.op) /\ ~r.is_admin) =>
             TurnedAway(r, 403)
        /\ (r.cred = "token" /\ r.auth = "ok" /\ PublisherRequired(r.op) /\ ~r.is_publisher) =>
             TurnedAway(r, 403)
        /\ (r.entered \/ r.io_calls > 0 \/ r.gwrites # <<>>) =>
             /\ r.cred = "token" /\ r.auth = "ok"
             /\ AdminRequired(r.op) => r.is_admin
             /\ PublisherRequired(r.op) => r.is_publisher

\* one request with valid claims but no publisher flag was turned away with
\* 403 while another, with the flag, went on to write a game
C17_Witness ==
    \E p, q \in Procs :
      /\ req[p].op = "update" /\ TurnedAway(req[p], 403)
      /\ req[p].auth = "ok" /\ ~req[p].is_publisher
      /\ req[q].op = "update" /\ req[q].entered /\ req[q].gwrites # <<>>

\* C20: with requests handled one at a time, the game list answered is
\* exactly the set of games whose status is approved, and the detail of one
\* game is answered 200 if the game is approved, 403 if it exists with
\* another status and 404 if it does not exist (every remote call
\* succeeding).
C20_OnlyApprovedExposed ==
    LET r == req[1] IN
    /\ (r.op = "list" /\ r.pc = "done" /\ r.status = 200) =>
         r.result = {g \in DOMAIN games : games[g].status = GAME_STATUS_APPROVED}
    /\ (r.op = "detail" /\ r.pc = "done") =>
         /\ r.status = 200 =>
              (r.gid \in DOMAIN games /\ games[r.gid].status = GAME_STATUS_APPROVED)
         /\ nfault = 0 =>
              r.status = IF r.gid \notin DOMAIN games THEN 404
                         ELSE IF games[r.gid].status = GAME_STATUS_APPROVED THEN 200
                         ELSE 403

\* game 1 was approved and listed; after its publisher's edit reset it to
\* pending the list no longer holds it
C20_Witness ==
    LET r == req[1] IN
    /\ r.op = "list" /\ r.pc = "done" /\ r.status = 200
    /\ InitCatalogGames[1].status = GAME_STATUS_APPROVED
    /\ games[1].status = GAME_STATUS_PENDING
    /\ 1 \notin r.result

\* C21: a return request reads or writes a wallet only after its DELETE of
\* the purchase record has succeeded, and from then on the record it
\* deleted is absent in every later state, whatever becomes of the refund
\* and whatever other requests do (a later purchase gets a new id).
C21_DeleteBeforeRefund ==
    /\ \A k \in DOMAIN purchases : k < nextPid
    /\ \A p \in Procs :
         LET r == req[p] IN
         r.op = "return" =>
           /\ (r.wreads > 0 \/ r.writes # <<>>) => r.deleted
           /\ r.deleted => r.pid \notin DOMAIN purchases

\* a return whose refund write failed after the deletion: answered 500, the
\* record still gone
C21_Witness ==
    \E p \in Procs :
      LET r == req[p] IN
      /\ r.op = "return" /\ r.pc = "done" /\ r.at = "ret_credit"
      /\ r.status = 500 /\ r.deleted /\ r.writes # <<>>
      /\ r.pid \notin DOMAIN purchases

C24_AdminSetsStatusUnconditionally ==
    LET r == req[1]
        target == IF r.op = "approve" THEN GAME_STATUS_APPROVED
                  ELSE GAME_STATUS_REJECTED
    IN  (r.op \in {"approve", "reject"} /\ r.pc = "done" /\ r.entered
         /\ nfault = 0) =>
          IF r.gid \in DOMAIN games
          THEN /\ r.status = 200
               /\ r.prev_status \in {GAME_STATUS_PENDING, GAME_STATUS_APPROVED,
                                      GAME_STATUS_REJECTED}
               /\ games[r.gid].status = target
               /\ Len(r.gwrites) = 1
               /\ r.payload = [NoPayload EXCEPT !.has_status = TRUE, !.status = target]
          ELSE r.status = 404 /\ r.gwrites = <<>>

\* a rejected game was approved in one request, never having been pending
\* in between
C24_Witness ==
    LET r == req[1] IN
    /\ r.op = "approve" /\ r.pc = "done" /\ r.status = 200 /\ nfault = 0
    /\ r.prev_status = GAME_STATUS_REJECTED
    /\ r.gid \in DOMAIN games
    /\ games[r.gid].status = GAME_STATUS_APPROVED

\* C25: a deposit issues at most one wallet read and one wallet write, the
\* write after the read and carrying the balance read plus the amount, and
\* one answered 200 has issued both.  Nothing orders the calls of two
\* requests: when two deposits to one wallet that read the same balance both
\* answer 200, the wallet holds that balance plus one of the two amounts
\* only; when a deposit and a purchase of the wallet's owner that read the
\* same balance both succeed, it holds either the deposit or the debit, not
\* both.
C25_DepositReadsOnceWritesOnce ==
    /\ \A p \in Procs :
         LET r == req[p] IN
         r.op = "deposit" =>
           /\ r.wreads <= 1 /\ Len(r.writes) <= 1 /\ r.mut_calls = 0
           /\ r.writes # <<>> =>
                (r.wreads = 1
                 /\ r.writes[1] = <<r.user_uid, r.user_balance + r.amount>>)
           /\ (r.pc = "done" /\ r.status = 200) => Len(r.writes) = 1
    /\ \A p, q \in Procs :
         LET r == req[p]
             t == req[q]
         IN  (p # q /\ r.op = "deposit" /\ r.pc = "done" /\ r.status = 200
              /\ r.user_uid = t.user_uid /\ r.user_balance = t.user_balance) =>
               /\ (t.op = "deposit" /\ t.pc = "done" /\ t.status = 200) =>
                    wallets[r.user_uid] \in {r.user_balance + r.amount,
                                             t.user_balance + t.amount}
               /\ (PurchaseOk(t) /\ t.publisher_uid # t.user_uid) =>
                    wallets[r.user_uid] \in {r.user_balance + r.amount,
                                             t.user_balance - t.game_price}

\* two deposits to one wallet both answered 200 and the balance grew by one
\* of the amounts only
C25_Witness ==
    \E p, q \in Procs :
      LET r == req[p]
          t == req[q]
      IN  /\ p # q
          /\ r.op = "deposit" /\ r.pc = "done" /\ r.status = 200
          /\ t.op = "deposit" /\ t.pc = "done" /\ t.status = 200
          /\ r.user_uid = t.user_uid /\ r.amount > 0 /\ t.amount > 0
          /\ r.w0[r.user_uid] = InitWallets[r.user_uid]
          /\ t.w0[r.user_uid] = InitWallets[r.user_uid]
          /\ wallets[r.user_uid] = InitWallets[r.user_uid] + r.amount
          /\ wallets[r.user_uid] < InitWallets[r.user_uid] + r.amount + t.amount

\* C26: with requests handled one at a time, the balance a successful
\* return writes to the buyer's wallet is the balance it read plus the price
\* the buyer was charged for the purchase, and the balance it writes to the
\* publisher's wallet is the balance it read minus that price, whatever
\* happened to the game between the purchase and the return.
C26_RefundEqualsPricePaid ==
    LET r == req[1] IN
    ReturnOk(r) =>
      /\ r.writes[1] = <<r.user_uid, r.user_balance + r.seen_paid>>
      /\ Len(r.writes) = 2 =>
           r.writes[2] = <<r.publisher_uid, r.publisher_balance - r.seen_paid>>

\* C27: a step of the purchase workflow that creates a purchase record is
\* taken while the game it names is approved, under every interleaving
\* with the admin's verdicts and the publisher's edits.
C27_RecordCreatedOnlyForApprovedGame ==
    [][\A p \in Procs :
         (/\ req[p].op = "purchase" /\ req[p].pc = "pur_create"
          /\ req'[p] # req[p]
          /\ DOMAIN purchases' # DOMAIN purchases) =>
            /\ req[p].gid \in DOMAIN games
            /\ games[req[p].gid].status = GAME_STATUS_APPROVED]_vars

\* C28: of two return requests for the same purchase id, under every
\* interleaving of their remote calls, at most one gets past the DELETE of
\* the record and so to the buyer's credit; the other ends with an error
\* response (the 404 of the DELETE when it had passed all the checks) and
\* has read and written no wallet.
C28_RefundedAtMostOnce ==
    \A p, q \in Procs :
      LET r == req[p]
          t == req[q]
      IN  (p # q /\ r.op = "return" /\ t.op = "return" /\ r.pid = t.pid) =>
            /\ ~(r.writes # <<>> /\ t.writes # <<>>)
            /\ ~(r.deleted /\ t.deleted)
            /\ (r.deleted /\ t.pc = "done") =>
                 /\ t.status \in {403, 404, 500}
                 /\ t.writes = <<>> /\ t.wreads = 0
                 /\ t.at = "ret_delete" => (t.status = 404 \/ nfault > 0)

\* both requests passed the ownership, window and playtime checks; one
\* refunded the buyer, the other's DELETE was answered 404
C28_Witness ==
    \E p, q \in Procs :
      LET r == req[p]
          t == req[q]
      IN  /\ p # q /\ r.pid = t.pid
          /\ ReturnOk(r) /\ r.writes # <<>>
          /\ t.op = "return" /\ t.pc = "done" /\ t.at = "ret_delete"
          /\ t.status = 404 /\ t.writes = <<>>
          /\ nfault = 0

\* C29: with requests handled one at a time and every remote call
\* succeeding, a successful purchase and a successful return of a game that
\* has a publisher leave the sum of the wallet balances as it was before the
\* request: what one of buyer and publisher loses the other gains.  When
\* the buyer is the game's own publisher the request leaves the buyer's
\* balance itself as it was.
C29_SumOfBalancesPreserved ==
    LET r == req[1]
        Moved(from, to) ==
            /\ wallets[from] = r.w0[from] - r.game_price
            /\ wallets[to] = r.w0[to] + r.game_price
    IN  ((PurchaseOk(r) \/ ReturnOk(r)) /\ r.publisher_uid # NoUid
         /\ nfault = 0) =>
          /\ wallets[1] + wallets[2] = r.w0[1] + r.w0[2]
          /\ Len(r.writes) = 2
          /\ r.publisher_uid = r.user_uid => wallets = r.w0
          /\ r.publisher_uid # r.user_uid =>
               IF r.op = "purchase" THEN Moved(r.user_uid, r.publisher_uid)
               ELSE Moved(r.publisher_uid, r.user_uid)

\* a publisher bought their own game: debited and credited the price, the
\* balance as before
C29_Witness ==
    LET r == req[1] IN
    /\ PurchaseOk(r) /\ nfault = 0
    /\ r.publisher_uid = r.user_uid /\ r.game_price > 0
    /\ Len(r.writes) = 2
    /\ r.writes[1][2] = r.w0[r.user_uid] - r.game_price
    /\ wallets = r.w0

\* C30: game prices being non-negative, the first wallet write of every
\* purchase request is the buyer's debit, it carries the balance the request
\* read minus the price it read, and that value is never negative, under
\* every interleaving with deposits, returns and other purchases and
\* whatever balance (negative included) the wallet held when it was read.
C30_DebitNeverNegative ==
    /\ \A g \in DOMAIN games : games[g].price >= 0
    /\ \A p \in Procs :
         LET r == req[p] IN
         (r.op = "purchase" /\ r.writes # <<>>) =>
           /\ r.writes[1] = <<r.user_uid, r.user_balance - r.game_price>>
           /\ r.game_price >= 0
           /\ r.writes[1][2] >= 0

\* two purchases of one buyer read the same balance, which covers one price
\* but not two; both debited it and wrote the same non-negative value
C30_Witness ==
    \E p, q \in Procs :
      LET r == req[p]
          t == req[q]
      IN  /\ p # q /\ r.op = "purchase" /\ t.op = "purchase"
          /\ r.user_uid = t.user_uid
          /\ r.writes # <<>> /\ t.writes # <<>>
          /\ r.user_balance = t.user_balance
          /\ r.game_price > 0 /\ t.game_price > 0
          /\ r.user_balance - r.game_price - t.game_price < 0
          /\ r.writes[1][2] >= 0 /\ t.writes[1][2] >= 0
====
